---- MODULE Spec2Model ----
(***************************************************************************)
(* Model of the plagiarism / AI-detection analysis pipeline of             *)
(* code-guard-nexus: the upload endpoint, the start-analysis endpoint and  *)
(* the background job PlagiarismService.run_assignment_analysis, together  *)
(* with the winnowing fingerprint engine the job calls.                    *)
(*                                                                         *)
(* One assignment and one analysis request, from the trigger to the end of *)
(* its background job, are modelled.  The persistent store (the tables     *)
(* assignments, submissions, files, comparison_pairs, analysis_results)    *)
(* is the shared state; the background job is modelled statement by        *)
(* statement with a program counter, because every .execute() is a         *)
(* separate round trip to the store that can raise.                        *)
(*                                                                         *)
(* Spec follows that one request and its job.  RequestsSpec follows the    *)
(* request handlers alone, with the start-analysis request repeated;       *)
(* ScoreSpec the comparison step of the job on any two submissions'        *)
(* embeddings and fingerprints; EngineSpec the fingerprint engine called   *)
(* on its own; DetectSpec one call of AdvancedAIDetector.detect on any     *)
(* analyzer results and pattern counts; RerunSpec repeated requests and    *)
(* their jobs for an assignment with two uploaded submissions.             *)
(***************************************************************************)
EXTENDS Integers, Sequences, FiniteSets, TLC

\* ---------------------------------------------------------------- bounds
MaxSubs == 3        \* submissions an assignment can get
MaxFiles == 2       \* file records of the seeded multi-file submission
MaxFaults == 1      \* swallowed failures (file steps, pair inserts) in one behaviour
MaxRequests == 2    \* start-analysis requests in one behaviour of RequestsSpec
MaxCoord == 1       \* largest coordinate of an embedding drawn in ScoreSpec
MaxHash == 3        \* largest hash value drawn in ScoreSpec and EngineSpec
MaxHashes == 5      \* longest hash sequence given to winnow in EngineSpec
MaxText == 5        \* longest canonical text drawn in EngineSpec
MaxRaw == 2         \* longest raw text drawn in EngineSpec
MaxK == 2           \* largest k-gram size drawn in EngineSpec
MaxW == 4           \* largest window size drawn in EngineSpec
MaxMatches == 3     \* most AI (or human) patterns that match in DetectSpec

\* ------------------------------------------------------- program constants
DefaultK == 15      \* WinnowingService.__init__ k
DefaultW == 10      \* WinnowingService.__init__ w
HashBits == 16      \* int(h[:8], 16) is 32 bits wide; 16 here, so that products fit TLC's integers
Scale == 25200      \* a float f in [-1,1] is the integer f * Scale

Subs == 1..MaxSubs

\* ------------------------------------------------------------ small helpers
Max2(a, b) == IF a >= b THEN a ELSE b
Min2(a, b) == IF a <= b THEN a ELSE b

RECURSIVE SeqMin(_)
SeqMin(s) == IF Len(s) = 1 THEN s[1] ELSE Min2(s[1], SeqMin(Tail(s)))

\* Orders in which a select without ORDER BY returns the rows with ids
\* 1..n: the store promises none.  The model enumerates the n rotations of
\* the id order, which give every pair of rows in both relative orders.
Orders(S) ==
    LET n == Cardinality(S) IN
    {[p \in 1..n |-> ((p + r - 1) % n) + 1] : r \in 0..(n - 1)}


\* ------------------------------------------------------- fingerprint engine
\* A text is a sequence of character codes.  The alphabet of the sample
\* corpus has no '/', '*', '"' or "'" in it, so of the five comment regular
\* expressions of preprocess only '#.*' can match.
Ch == [a |-> 97, b |-> 98, A |-> 65, space |-> 32, newline |-> 10, hash |-> 35]

IsSpace(c) == c \in {Ch.space, Ch.newline}
Lower(c) == IF c >= 65 /\ c <= 90 THEN c + 32 ELSE c

\* re.sub(r'#.*', '', text): drop from '#' up to, not including, the newline
RECURSIVE StripHashComments(_, _)
StripHashComments(text, inComment) ==
    IF text = <<>> THEN <<>>
    ELSE LET c == Head(text) IN
         IF c = Ch.newline THEN <<c>> \o StripHashComments(Tail(text), FALSE)
         ELSE IF inComment \/ c = Ch.hash THEN StripHashComments(Tail(text), TRUE)
         ELSE <<c>> \o StripHashComments(Tail(text), FALSE)

RECURSIVE LowerAndStripSpace(_)
LowerAndStripSpace(text) ==
    IF text = <<>> THEN <<>>
    ELSE IF IsSpace(Head(text)) THEN LowerAndStripSpace(Tail(text))
    ELSE <<Lower(Head(text))>> \o LowerAndStripSpace(Tail(text))

preprocess(text) == LowerAndStripSpace(StripHashComments(text, FALSE))

\* range(len(text) - k): the last k-gram is left out
get_kgrams_drop_last(text, k) ==
    IF Len(text) < k
    THEN (IF text # <<>> THEN <<text>> ELSE <<>>)
    ELSE [i \in 1..(Len(text) - k) |-> SubSeq(text, i, i + k - 1)]

get_kgrams(text, k) ==
    IF Len(text) < k
    THEN (IF text # <<>> THEN <<text>> ELSE <<>>)
    ELSE [i \in 1..(Len(text) - k + 1) |-> SubSeq(text, i, i + k - 1)]

\* int(md5(kg).hexdigest()[:8], 16): a deterministic 32-bit value of the
\* k-gram; MD5 itself is replaced by a polynomial hash of the same width.
RECURSIVE HashOne(_)
HashOne(kg) ==
    IF kg = <<>> THEN 7
    ELSE (HashOne(SubSeq(kg, 1, Len(kg) - 1)) * 31 + kg[Len(kg)]) % (2 ^ HashBits)

hash_kgrams(kgrams) == [i \in 1..Len(kgrams) |-> HashOne(kgrams[i])]

\* range(n - w): the last window is left out
winnow_drop_last_window(hashes, w) ==
    IF hashes = <<>> THEN {}
    ELSE IF Len(hashes) < w THEN {SeqMin(hashes)}
    ELSE {SeqMin(SubSeq(hashes, i, i + w - 1)) : i \in 1..(Len(hashes) - w)}

\* the minimum of the whole sequence, whatever its length
winnow_global_min(hashes, w) ==
    IF hashes = <<>> THEN {} ELSE {SeqMin(hashes)}

winnow(hashes, w) ==
    IF hashes = <<>> THEN {}
    ELSE IF Len(hashes) < w THEN {SeqMin(hashes)}
    ELSE {SeqMin(SubSeq(hashes, i, i + w - 1)) : i \in 1..(Len(hashes) - w + 1)}

\* the text is fingerprinted as it is, not preprocessed
get_fingerprints_raw(text, k, w) ==
    IF text = <<>> THEN {}
    ELSE winnow(hash_kgrams(get_kgrams(text, k)), w)

get_fingerprints(text, k, w) ==
    LET clean_text == preprocess(text) IN
    IF clean_text = <<>> THEN {}
    ELSE winnow(hash_kgrams(get_kgrams(clean_text, k)), w)

\* the overlap coefficient: the intersection over the smaller set
compute_similarity_overlap(fp1, fp2) ==
    IF fp1 = {} \/ fp2 = {} THEN 0
    ELSE (Cardinality(fp1 \cap fp2) * Scale) \div Min2(Cardinality(fp1), Cardinality(fp2))

\* the containment of the first set in the second
compute_similarity_containment(fp1, fp2) ==
    IF fp1 = {} \/ fp2 = {} THEN 0
    ELSE (Cardinality(fp1 \cap fp2) * Scale) \div Cardinality(fp1)

\* len(intersection) / len(union) as a float, here in units of 1/Scale
compute_similarity(fp1, fp2) ==
    IF fp1 = {} \/ fp2 = {} THEN 0
    ELSE (Cardinality(fp1 \cap fp2) * Scale) \div Cardinality(fp1 \cup fp2)


\* ------------------------------------------------------------ sample corpus
\* Contents of the uploaded files.  Texts 1 and 2 differ only in case,
\* whitespace and a comment; text 4 is a comment only.
SampleTexts ==
    << <<Ch.a, Ch.b>>,
       <<Ch.A, Ch.space, Ch.b, Ch.hash, Ch.a, Ch.newline>>,
       <<Ch.b, Ch.a>>,
       <<Ch.hash, Ch.a>> >>

\* file f of submission s holds this text
FileText(s, f) ==
    IF s = 1 THEN SampleTexts[IF f = 1 THEN 1 ELSE IF f = 2 THEN 3 ELSE 4]
    ELSE IF s = 2 THEN SampleTexts[2]
    ELSE IF s = 3 THEN SampleTexts[3]
    ELSE SampleTexts[4]

\* The number of file records of submission s: the seeded submission 1 has
\* several, an uploaded submission has exactly one.
FileCount(s) == IF s = 1 THEN MaxFiles ELSE 1

\* detector.get_embedding(code): the network is an opaque deterministic map
\* from the raw text to a non-zero vector; here a two-dimensional one.
get_embedding(text) ==
    IF Head(text) = Ch.a THEN <<1, 0>>
    ELSE IF Head(text) = Ch.b THEN <<1, 2>>
    ELSE <<0 - 4, 1>>

\* a key that is not in the dict submission_embeddings
NoEmbedding == <<0, 0>>

\* the sum of the embeddings of the files read; np.mean(embeddings, axis=0)
\* is this sum divided by their number, which the cosine cancels
RECURSIVE SumEmbeddings(_, _)
SumEmbeddings(s, fs) ==
    IF fs = <<>> THEN NoEmbedding
    ELSE LET e == get_embedding(FileText(s, Head(fs)))
             r == SumEmbeddings(s, Tail(fs))
         IN <<e[1] + r[1], e[2] + r[2]>>

Dot(a, b) == a[1] * b[1] + a[2] * b[2]

\* the integer part of the square root of x, known to lie in lo..hi
RECURSIVE ISqrtIn(_, _, _)
ISqrtIn(x, lo, hi) ==
    IF lo = hi THEN lo
    ELSE LET mid == (lo + hi + 1) \div 2 IN
         IF mid * mid <= x THEN ISqrtIn(x, mid, hi) ELSE ISqrtIn(x, lo, mid - 1)

ISqrt(x) == ISqrtIn(x, 0, 2 ^ 15)

\* float(np.dot(a, b) / (np.linalg.norm(a) * np.linalg.norm(b))) in units of
\* 1/Scale; the product of the norms is taken to two decimal places
Cosine(a, b) ==
    (Dot(a, b) * 100 * Scale) \div ISqrt(Dot(a, a) * Dot(b, b) * 10000)

\* the weighted average alone
combined_similarity_average(embedding_similarity, winnowing_similarity) ==
    (embedding_similarity * 4 + winnowing_similarity * 6) \div 10

\* equal weights for the two signals
combined_similarity_equal(embedding_similarity, winnowing_similarity) ==
    Max2((embedding_similarity * 5 + winnowing_similarity * 5) \div 10,
         winnowing_similarity)

\* the smaller of the average and the winnowing similarity
combined_similarity_min(embedding_similarity, winnowing_similarity) ==
    Min2((embedding_similarity * 4 + winnowing_similarity * 6) \div 10,
         winnowing_similarity)

\* max(0.4 * embedding + 0.6 * winnowing, winnowing)
combined_similarity(embedding_similarity, winnowing_similarity) ==
    Max2((embedding_similarity * 4 + winnowing_similarity * 6) \div 10,
         winnowing_similarity)

\* --------------------------------------------------------------- the store
SeedAssignmentStatuses == {"active", "completed", "draft"}
NoPair == [status |-> "none", score |-> 0 - 1]
PairKeys == {k \in Subs \X Subs : k[1] # k[2]}
FileKeys == {k \in Subs \X (1..(MaxFiles + 1)) : k[2] <= FileCount(k[1])}

VARIABLES
    asgStatus,      \* assignments.status of the assignment
    subs,           \* ids of the rows of table submissions
    subStatus,      \* submissions.status, "none" for no row
    hasFile,        \* submissions with their row in table files
    pairs,          \* comparison_pairs: (submission_a_id, submission_b_id) -> row
    results,        \* analysis_results: number of rows per (submission, file)
    queued,         \* background tasks scheduled and not yet started
    requests,       \* history: start-analysis requests accepted so far
    pc,             \* statement the background job is at; done: it has returned
    submissions,    \* the job's list submissions_result.data
    i,              \* index of the job's current (outer) submission
    j,              \* index of the current file, or of sub_b in step 4
    all_code_for_sub,           \* files of the current submission read so far
    all_fingerprints_for_sub,   \* their fingerprints
    submission_embeddings,      \* dict: submission -> sum of file embeddings
    submission_fingerprints,    \* dict: submission -> fingerprint union
    asgWrites,      \* history: assignment statuses this job has written
    statusAtLoad,   \* history: assignments.status when the job started
    marked,         \* history: submissions this job has set to processing
    raised,         \* history: what raised into the outer except, "" for nothing
    outcome,        \* history: what happened to each file in this job
    faults,         \* failures swallowed so far (inner except, except: pass)
    call            \* the last call of the fingerprint engine or the detector made on its own

vars == <<asgStatus, subs, subStatus, hasFile, pairs, results, queued, requests,
          pc, submissions, i, j, all_code_for_sub, all_fingerprints_for_sub,
          submission_embeddings, submission_fingerprints, asgWrites,
          statusAtLoad, marked, raised, outcome, faults, call>>

store == <<asgStatus, subs, subStatus, hasFile, pairs, results>>
job == <<pc, submissions, i, j, all_code_for_sub, all_fingerprints_for_sub,
         submission_embeddings, submission_fingerprints, asgWrites, statusAtLoad,
         marked, raised, outcome>>

\* no call of the fingerprint engine on its own
NoCall == [fn |-> "none"]

CanFail == faults < MaxFaults

\* run_assignment_analysis is a coroutine without a single await: once the
\* event loop has started it, no request handler runs until it returns.
\* The behaviour ends with the job.
InJob == pc # "idle"

Init ==
    /\ asgStatus \in SeedAssignmentStatuses
    /\ subs = {1}
    /\ subStatus = [s \in Subs |-> IF s = 1 THEN "pending" ELSE "none"]
    /\ hasFile = {1}
    /\ pairs = [k \in PairKeys |-> NoPair]
    /\ results = [k \in FileKeys |-> 0]
    /\ queued = 0
    /\ requests = 0
    /\ pc = "idle"
    /\ submissions = <<>>
    /\ i = 0
    /\ j = 0
    /\ all_code_for_sub = <<>>
    /\ all_fingerprints_for_sub = {}
    /\ submission_embeddings = [s \in Subs |-> NoEmbedding]
    /\ submission_fingerprints = [s \in Subs |-> {}]
    /\ asgWrites = <<>>
    /\ statusAtLoad = ""
    /\ marked = {}
    /\ raised = ""
    /\ outcome = [k \in FileKeys |-> "none"]
    /\ faults = 0
    /\ call = NoCall


\* ------------------------------------------------- upload_submission_files
\* The endpoint makes one submission per uploaded file: it inserts the
\* submission row with status pending, writes the file to disk (awaits),
\* inserts the file record and then updates the submission.
UploadCreate ==
    /\ ~InJob
    /\ Cardinality(subs) < MaxSubs
    /\ subs = hasFile
    /\ LET s == Cardinality(subs) + 1 IN
       /\ subs' = subs \cup {s}
       /\ subStatus' = [subStatus EXCEPT ![s] = "pending"]
    /\ UNCHANGED <<asgStatus, hasFile, pairs, results, queued, requests, job, faults, call>>

UploadFinish ==
    \E s \in subs \ hasFile :
       /\ ~InJob
       /\ hasFile' = hasFile \cup {s}
       /\ subStatus' = [subStatus EXCEPT ![s] = "processing"]
       /\ UNCHANGED <<asgStatus, subs, pairs, results, queued, requests, job, faults, call>>

\* ---------------------------------------------------------- start_analysis
\* The pairs (sub_a, sub_b) the double loop of start_analysis and of step 4
\* visits for a list of submission ids
LoopPairs(ids) ==
    {<<ids[p[1]], ids[p[2]]>> :
        p \in {q \in (1..Len(ids)) \X (1..Len(ids)) : q[1] < q[2]}}

\* the request is refused while a job is scheduled or the assignment is in
\* processing
StartAnalysisSingleFlight(limit) ==
    /\ ~InJob
    /\ pc = "idle"
    /\ requests < limit
    /\ queued = 0
    /\ asgStatus # "processing"
    /\ \E order \in Orders(subs) :
          pairs' = [k \in PairKeys |->
                      IF k \in LoopPairs(order) /\ pairs[k].status = "none"
                      THEN [status |-> "pending", score |-> 0 - 1]
                      ELSE pairs[k]]
    /\ queued' = queued + 1
    /\ requests' = requests + 1
    /\ UNCHANGED <<asgStatus, subs, subStatus, hasFile, results, job, faults, call>>

\* Inserts one pending row per pair of the order the select returned.  An
\* insert that raises is swallowed (except: pass): the row exists already
\* (the key (assignment, a, b) is unique) or the store failed.
StartAnalysis(limit) ==
    /\ ~InJob
    /\ pc = "idle"
    /\ requests < limit
    /\ \E order \in Orders(subs) :
       \E lost \in SUBSET LoopPairs(order) :
          /\ Cardinality(lost) <= 1
          /\ faults + Cardinality(lost) <= MaxFaults
          /\ faults' = faults + Cardinality(lost)
          /\ pairs' = [k \in PairKeys |->
                         IF k \in LoopPairs(order) \ lost /\ pairs[k].status = "none"
                         THEN [status |-> "pending", score |-> 0 - 1]
                         ELSE pairs[k]]
    /\ queued' = queued + 1
    /\ requests' = requests + 1
    /\ UNCHANGED <<asgStatus, subs, subStatus, hasFile, results, job, call>>

\* the one request whose job Spec follows
start_analysis == StartAnalysis(1)

\* a request that can follow earlier ones
start_analysis_again == StartAnalysis(MaxRequests)


\* ------------------------------------------------ run_assignment_analysis
\* An .execute() or a provider call raises: control goes to the outer
\* except clause (line 137).
Raise(what) ==
    /\ faults' = faults
    /\ raised' = what
    /\ pc' = "except"

\* the job goes on whatever the number of submissions
AfterLoadProceed(n) == "mark_assignment"

\* line 34-36: with fewer than two submissions the job returns
AfterLoad(n) == IF n < 2 THEN "done" ELSE "mark_assignment"

\* line 31-36: select the submissions with their files
RunLoad ==
    /\ pc = "idle"
    /\ queued > 0
    /\ queued' = queued - 1
    /\ requests' = requests
    /\ i' = 0
    /\ j' = 0
    /\ all_code_for_sub' = <<>>
    /\ all_fingerprints_for_sub' = {}
    /\ submission_embeddings' = [s \in Subs |-> NoEmbedding]
    /\ submission_fingerprints' = [s \in Subs |-> {}]
    /\ asgWrites' = <<>>
    /\ statusAtLoad' = asgStatus
    /\ marked' = {}
    /\ outcome' = [k \in FileKeys |-> "none"]
    /\ \/ /\ Raise("load")
          /\ submissions' = <<>>
       \/ /\ \E order \in Orders(subs) :
                submissions' = [n \in 1..Len(order) |->
                                  [id |-> order[n],
                                   files |-> IF order[n] \in hasFile
                                             THEN FileCount(order[n]) ELSE 0]]
          /\ pc' = AfterLoad(Len(submissions'))
          /\ raised' = ""
          /\ faults' = faults
    /\ UNCHANGED store
    /\ UNCHANGED call

\* the update applies to an active assignment only
MarkedStatusGuarded(current) == IF current = "active" THEN "processing" ELSE current

\* line 39: the status written over the current one, which is not read
MarkedStatus(current) == "processing"

\* line 39
RunMarkAssignment ==
    /\ pc = "mark_assignment"
    /\ \/ /\ Raise("assignment_write")
          /\ UNCHANGED <<store, asgWrites, i, j>>
       \/ /\ asgStatus' = MarkedStatus(asgStatus)
          /\ asgWrites' = Append(asgWrites, asgStatus')
          /\ pc' = "mark_submissions"
          /\ i' = 1
          /\ j' = 0
          /\ UNCHANGED <<subs, subStatus, hasFile, pairs, results, raised, faults>>
    /\ UNCHANGED <<queued, requests, submissions, all_code_for_sub,
                   all_fingerprints_for_sub, submission_embeddings,
                   submission_fingerprints, statusAtLoad, marked, outcome>>
    /\ UNCHANGED call

\* line 40-41, one submission per step
RunMarkSubmission ==
    /\ pc = "mark_submissions"
    /\ \/ /\ Raise("submission_write")
          /\ UNCHANGED <<store, i, j, marked>>
       \/ /\ subStatus' = [subStatus EXCEPT ![submissions[i].id] = "processing"]
          /\ marked' = marked \cup {submissions[i].id}
          /\ IF i < Len(submissions)
             THEN /\ i' = i + 1
                  /\ j' = j
                  /\ pc' = pc
             ELSE /\ i' = 1
                  /\ j' = 1
                  /\ pc' = "files"
          /\ UNCHANGED <<asgStatus, subs, hasFile, pairs, results, raised, faults>>
    /\ UNCHANGED <<queued, requests, submissions, all_code_for_sub,
                   all_fingerprints_for_sub, submission_embeddings,
                   submission_fingerprints, asgWrites, statusAtLoad, outcome>>
    /\ UNCHANGED call

\* the insert replaces the row the file has
InsertResultReplace(s, f) == [results EXCEPT ![<<s, f>>] = 1]

\* line 79: insert into analysis_results, one more row for the file
InsertResult(s, f) == [results EXCEPT ![<<s, f>>] = @ + 1]

\* a failing file ends the loop over the submission's files
NextFileAbort(f, failed) == IF failed THEN MaxFiles + 2 ELSE f + 1

\* line 80-81: the inner except logs and the loop goes on with the next file
NextFile(f, failed) == f + 1

\* line 51-81, one file per step.  The file is missing (exists() is false)
\* or open/read raises: it is not read.  Or it is read and detect_ai or the
\* insert raises (caught by the inner except), or the row is inserted.
RunAnalyzeFile ==
    /\ pc = "files"
    /\ j <= submissions[i].files
    /\ LET s == submissions[i].id
           read == /\ all_code_for_sub' = Append(all_code_for_sub, j)
                   /\ all_fingerprints_for_sub' = all_fingerprints_for_sub \cup
                          get_fingerprints(FileText(s, j), DefaultK, DefaultW)
       IN \/ /\ CanFail
             /\ faults' = faults + 1
             /\ outcome' = [outcome EXCEPT ![<<s, j>>] = "not_read"]
             /\ j' = j + 1
             /\ UNCHANGED <<all_code_for_sub, all_fingerprints_for_sub, results>>
          \/ /\ CanFail
             /\ faults' = faults + 1
             /\ outcome' = [outcome EXCEPT ![<<s, j>>] = "not_read"]
             /\ j' = NextFile(j, TRUE)
             /\ UNCHANGED <<all_code_for_sub, all_fingerprints_for_sub, results>>
          \/ /\ CanFail
             /\ faults' = faults + 1
             /\ read
             /\ outcome' = [outcome EXCEPT ![<<s, j>>] = "analysis_failed"]
             /\ j' = NextFile(j, TRUE)
             /\ UNCHANGED results
          \/ /\ read
             /\ results' = InsertResult(s, j)
             /\ outcome' = [outcome EXCEPT ![<<s, j>>] = "ok"]
             /\ j' = NextFile(j, FALSE)
             /\ faults' = faults
    /\ UNCHANGED <<asgStatus, subs, subStatus, hasFile, pairs, queued, requests,
                   pc, submissions, i, submission_embeddings,
                   submission_fingerprints, asgWrites, statusAtLoad, marked, raised>>
    /\ UNCHANGED call

\* line 84-94: store the fingerprint union, embed every file that was read
RunEmbed ==
    /\ pc = "files"
    /\ j > submissions[i].files
    /\ LET s == submissions[i].id IN
       /\ submission_fingerprints' =
              [submission_fingerprints EXCEPT ![s] = all_fingerprints_for_sub]
       /\ \/ /\ all_code_for_sub # <<>>
             /\ Raise("embedding")
             /\ UNCHANGED <<submission_embeddings, i, j, all_code_for_sub,
                            all_fingerprints_for_sub>>
          \/ /\ submission_embeddings' =
                    IF all_code_for_sub # <<>>
                    THEN [submission_embeddings EXCEPT
                             ![s] = SumEmbeddings(s, all_code_for_sub)]
                    ELSE submission_embeddings
             /\ all_code_for_sub' = <<>>
             /\ all_fingerprints_for_sub' = {}
             /\ IF i < Len(submissions)
                THEN /\ i' = i + 1
                     /\ j' = 1
                     /\ pc' = pc
                ELSE /\ i' = 1
                     /\ j' = 2
                     /\ pc' = "pairs"
             /\ UNCHANGED <<raised, faults>>
    /\ UNCHANGED <<store, queued, requests, submissions, asgWrites, statusAtLoad, marked, outcome>>
    /\ UNCHANGED call


\* line 100-122: the score of the pair (a, b) from the two dictionaries
PairScore(a, b) ==
    LET embedding_similarity ==
            IF submission_embeddings[a] # NoEmbedding /\ submission_embeddings[b] # NoEmbedding
            THEN Cosine(submission_embeddings[a], submission_embeddings[b])
            ELSE 0
        winnowing_similarity ==
            compute_similarity(submission_fingerprints[a], submission_fingerprints[b])
    IN Min2(combined_similarity(embedding_similarity, winnowing_similarity), Scale)

\* the update moves the row to the direction (a, b) of the job
UpdatePairNormalise(a, b, score) ==
    [k \in PairKeys |->
        IF k = <<a, b>> THEN [status |-> "completed", score |-> score]
        ELSE IF k = <<b, a>> THEN NoPair
        ELSE pairs[k]]

\* an upsert: the row is written whether it exists or not
UpdatePairUpsert(a, b, score) ==
    [k \in PairKeys |->
        IF k = <<a, b>> THEN [status |-> "completed", score |-> score] ELSE pairs[k]]

\* line 125-128: update ... where submission_a_id = a and submission_b_id = b;
\* an update that matches no row changes nothing and does not raise
UpdatePair(a, b, score) ==
    [k \in PairKeys |->
        IF k = <<a, b>> /\ pairs[k].status # "none"
        THEN [status |-> "completed", score |-> score]
        ELSE pairs[k]]

\* line 97-128, one pair (submissions[i], submissions[j]) per step
RunComparePair ==
    /\ pc = "pairs"
    /\ LET a == submissions[i].id
           b == submissions[j].id
       IN \/ /\ Raise("pair_update")
             /\ UNCHANGED <<store, i, j>>
          \/ /\ pairs' = UpdatePair(a, b, PairScore(a, b))
             /\ IF j < Len(submissions)
                THEN /\ i' = i
                     /\ j' = j + 1
                     /\ pc' = pc
                ELSE IF i + 1 < Len(submissions)
                THEN /\ i' = i + 1
                     /\ j' = i + 2
                     /\ pc' = pc
                ELSE /\ i' = 0
                     /\ j' = 0
                     /\ pc' = "final_assignment"
             /\ UNCHANGED <<asgStatus, subs, subStatus, hasFile, results, raised, faults>>
    /\ UNCHANGED <<queued, requests, submissions, all_code_for_sub,
                   all_fingerprints_for_sub, submission_embeddings,
                   submission_fingerprints, asgWrites, statusAtLoad, marked, outcome>>
    /\ UNCHANGED call

\* line 131
RunFinalAssignment ==
    /\ pc = "final_assignment"
    /\ \/ /\ Raise("assignment_write")
          /\ UNCHANGED <<store, asgWrites, i>>
       \/ /\ asgStatus' = "completed"
          /\ asgWrites' = Append(asgWrites, "completed")
          /\ pc' = "final_submissions"
          /\ i' = 1
          /\ UNCHANGED <<subs, subStatus, hasFile, pairs, results, raised, faults>>
    /\ UNCHANGED <<queued, requests, submissions, j, all_code_for_sub,
                   all_fingerprints_for_sub, submission_embeddings,
                   submission_fingerprints, statusAtLoad, marked, outcome>>
    /\ UNCHANGED call

\* line 132-133, one submission per step
RunFinalSubmission ==
    /\ pc = "final_submissions"
    /\ \/ /\ Raise("submission_write")
          /\ UNCHANGED <<store, i>>
       \/ /\ subStatus' = [subStatus EXCEPT ![submissions[i].id] = "completed"]
          /\ IF i < Len(submissions)
             THEN /\ i' = i + 1
                  /\ pc' = pc
             ELSE /\ i' = 0
                  /\ pc' = "done"
          /\ UNCHANGED <<asgStatus, subs, hasFile, pairs, results, raised, faults>>
    /\ UNCHANGED <<queued, requests, submissions, j, all_code_for_sub,
                   all_fingerprints_for_sub, submission_embeddings,
                   submission_fingerprints, asgWrites, statusAtLoad, marked, outcome>>
    /\ UNCHANGED call

\* the outer except leaves the assignment in processing
ExceptStatusStale == "processing"

\* line 139: the status the outer except writes
ExceptStatus == "failed"

\* line 137-139: the outer except writes the status and the job returns; if
\* that write raises too, nothing is written and the exception leaves the
\* coroutine: the job has crashed
RunExcept ==
    /\ pc = "except"
    /\ \/ /\ pc' = "crashed"
          /\ UNCHANGED <<asgStatus, asgWrites>>
       \/ /\ pc' = "done"
          /\ asgStatus' = ExceptStatus
          /\ asgWrites' = Append(asgWrites, ExceptStatus)
    /\ UNCHANGED <<raised, faults>>
    /\ UNCHANGED <<subs, subStatus, hasFile, pairs, results, queued, requests,
                   submissions, i, j, all_code_for_sub, all_fingerprints_for_sub,
                   submission_embeddings, submission_fingerprints, statusAtLoad,
                   marked, outcome>>
    /\ UNCHANGED call

Next ==
    \/ UploadCreate
    \/ UploadFinish
    \/ start_analysis
    \/ RunLoad
    \/ RunMarkAssignment
    \/ RunMarkSubmission
    \/ RunAnalyzeFile
    \/ RunEmbed
    \/ RunComparePair
    \/ RunFinalAssignment
    \/ RunFinalSubmission
    \/ RunExcept

Spec == Init /\ [][Next]_vars

\* The comparison step (step 4) alone, entered with any two dictionaries the
\* file step can leave for two submissions: an embedding is any non-zero
\* vector or is absent, a fingerprint union is any set of hashes; a
\* submission none of whose files was read has neither.
ScoreInit ==
    /\ asgStatus = "processing"
    /\ subs = {1, 2}
    /\ subStatus = [s \in Subs |-> IF s \in {1, 2} THEN "processing" ELSE "none"]
    /\ hasFile = {1, 2}
    /\ pairs = [k \in PairKeys |->
                  IF k = <<1, 2>> THEN [status |-> "pending", score |-> 0 - 1]
                  ELSE NoPair]
    /\ results = [k \in FileKeys |-> 0]
    /\ queued = 0
    /\ requests = 1
    /\ pc = "pairs"
    /\ submissions = <<[id |-> 1, files |-> FileCount(1)], [id |-> 2, files |-> FileCount(2)]>>
    /\ i = 1
    /\ j = 2
    /\ all_code_for_sub = <<>>
    /\ all_fingerprints_for_sub = {}
    /\ \E e \in [{1, 2} -> ((0 - MaxCoord)..MaxCoord) \X ((0 - MaxCoord)..MaxCoord)] :
       \E f \in [{1, 2} -> SUBSET (1..MaxHash)] :
          /\ \A s \in {1, 2} : e[s] = NoEmbedding => f[s] = {}
          /\ submission_embeddings = [s \in Subs |-> IF s \in {1, 2} THEN e[s] ELSE NoEmbedding]
          /\ submission_fingerprints = [s \in Subs |-> IF s \in {1, 2} THEN f[s] ELSE {}]
    /\ asgWrites = <<"processing">>
    /\ statusAtLoad = "active"
    /\ marked = {1, 2}
    /\ raised = ""
    /\ outcome = [k \in FileKeys |-> "none"]
    /\ faults = 0
    /\ call = NoCall

ScoreNext == RunComparePair

ScoreSpec == ScoreInit /\ [][ScoreNext]_vars

\* The request handlers alone, with start-analysis requests repeated.  The
\* job inserts and deletes no row of comparison_pairs, so which pair rows
\* exist is decided by these handlers.
RequestsNext ==
    \/ UploadCreate
    \/ UploadFinish
    \/ start_analysis_again

RequestsSpec == Init /\ [][RequestsNext]_vars

\* The coroutine has returned (or its exception has left it): the event
\* loop is free for the next request or the next scheduled job.
JobReturns ==
    /\ pc \in {"done", "crashed"}
    /\ pc' = "idle"
    /\ UNCHANGED <<store, queued, requests, submissions, i, j, all_code_for_sub,
                   all_fingerprints_for_sub, submission_embeddings,
                   submission_fingerprints, asgWrites, statusAtLoad, marked,
                   raised, outcome, faults, call>>

\* Repeated runs for one assignment with two uploaded submissions: requests
\* are accepted before, between and after the jobs, which the one event
\* loop the application is started with (main.py 115) runs one at a time.
RerunInit ==
    /\ asgStatus = "active"
    /\ subs = {1, 2}
    /\ subStatus = [s \in Subs |-> IF s \in {1, 2} THEN "processing" ELSE "none"]
    /\ hasFile = {1, 2}
    /\ pairs = [k \in PairKeys |-> NoPair]
    /\ results = [k \in FileKeys |-> 0]
    /\ queued = 0
    /\ requests = 0
    /\ pc = "idle"
    /\ submissions = <<>>
    /\ i = 0
    /\ j = 0
    /\ all_code_for_sub = <<>>
    /\ all_fingerprints_for_sub = {}
    /\ submission_embeddings = [s \in Subs |-> NoEmbedding]
    /\ submission_fingerprints = [s \in Subs |-> {}]
    /\ asgWrites = <<>>
    /\ statusAtLoad = ""
    /\ marked = {}
    /\ raised = ""
    /\ outcome = [k \in FileKeys |-> "none"]
    /\ faults = 0
    /\ call = NoCall

RerunNext ==
    \/ start_analysis_again
    \/ RunLoad
    \/ RunMarkAssignment
    \/ RunMarkSubmission
    \/ RunAnalyzeFile
    \/ RunEmbed
    \/ RunComparePair
    \/ RunFinalAssignment
    \/ RunFinalSubmission
    \/ RunExcept
    \/ JobReturns

RerunSpec == RerunInit /\ [][RerunNext]_vars

TypeOK ==
    /\ asgStatus \in {"draft", "active", "closed", "archived",
                      "processing", "completed", "failed"}
    /\ subs \subseteq Subs
    /\ \A s \in Subs : subStatus[s] \in {"none", "pending", "processing", "completed", "failed"}
    /\ \A k \in PairKeys : pairs[k].status \in {"none", "pending", "in_progress", "completed", "failed"}
    /\ pc \in {"idle", "mark_assignment", "mark_submissions", "files", "pairs",
               "final_assignment", "final_submissions", "except", "done", "crashed"}
    /\ faults \in 0..MaxFaults
    /\ queued \in 0..MaxRequests
    /\ requests \in 0..MaxRequests


\* ------------------------------------------- the fingerprint engine alone
\* WinnowingService called on its own, as its unit tests do, with k and w
\* given to the constructor.  One call per behaviour, on any input within
\* the bounds.
SeqsUpTo(S, n) == UNION {[1..m -> S] : m \in 0..n}

\* test_winnowing_logic: the hashes of the worked example (w = 4)
TestHashes == <<10, 5, 20, 2, 8, 15>>

HashSeqs == SeqsUpTo(1..MaxHash, MaxHashes) \cup {TestHashes}
CanonicalTexts == SeqsUpTo({Ch.a, Ch.b}, MaxText)
RawTexts == SeqsUpTo({Ch.a, Ch.A, Ch.space, Ch.newline, Ch.hash}, MaxRaw)
FingerprintSets == SUBSET (1..MaxHash)

CallWinnow ==
    /\ call = NoCall
    /\ \E hashes \in HashSeqs, w \in 1..MaxW :
          call' = [fn |-> "winnow", hashes |-> hashes, w |-> w,
                   ret |-> winnow(hashes, w)]
    /\ UNCHANGED <<store, queued, requests, job, faults>>

CallGetKgrams ==
    /\ call = NoCall
    /\ \E text \in CanonicalTexts, k \in 1..MaxK :
          call' = [fn |-> "get_kgrams", text |-> text, k |-> k,
                   ret |-> get_kgrams(text, k)]
    /\ UNCHANGED <<store, queued, requests, job, faults>>

\* compute_similarity of two sets, called with the arguments either way round
CallComputeSimilarity ==
    /\ call = NoCall
    /\ \E fp1 \in FingerprintSets, fp2 \in FingerprintSets :
          call' = [fn |-> "compute_similarity", fp1 |-> fp1, fp2 |-> fp2,
                   ret |-> compute_similarity(fp1, fp2),
                   ret_swapped |-> compute_similarity(fp2, fp1)]
    /\ UNCHANGED <<store, queued, requests, job, faults>>

\* get_fingerprints of two raw texts and compute_similarity of the results
\* (test_similarity_identical, test_winnowing)
CallGetFingerprints ==
    /\ call = NoCall
    /\ \E text1 \in RawTexts, text2 \in RawTexts, k \in 1..MaxK, w \in 1..MaxW :
          LET fp1 == get_fingerprints(text1, k, w)
              fp2 == get_fingerprints(text2, k, w)
          IN call' = [fn |-> "get_fingerprints", text1 |-> text1, text2 |-> text2,
                      k |-> k, w |-> w, fp1 |-> fp1, fp2 |-> fp2,
                      ret |-> compute_similarity(fp1, fp2)]
    /\ UNCHANGED <<store, queued, requests, job, faults>>

\* get_kgrams, hash_kgrams and winnow on two texts that are canonical already
CallPipeline ==
    /\ call = NoCall
    /\ \E text1 \in CanonicalTexts, text2 \in CanonicalTexts,
          k \in 1..MaxK, w \in 1..MaxW :
          call' = [fn |-> "pipeline", text1 |-> text1, text2 |-> text2,
                   k |-> k, w |-> w,
                   fp1 |-> winnow(hash_kgrams(get_kgrams(text1, k)), w),
                   fp2 |-> winnow(hash_kgrams(get_kgrams(text2, k)), w)]
    /\ UNCHANGED <<store, queued, requests, job, faults>>

EngineNext ==
    \/ CallWinnow
    \/ CallGetKgrams
    \/ CallComputeSimilarity
    \/ CallGetFingerprints
    \/ CallPipeline

\* the store plays no part: it is empty, as after construction
EngineInit == Init /\ asgStatus = "active"

EngineSpec == EngineInit /\ [][EngineNext]_vars

\* ------------------------------------------------ AdvancedAIDetector.detect
\* A score or a confidence f is the integer f * Unit.  The analyzers and the
\* pattern lists read the text with regular expressions; here each is the
\* set of the results it can return, and detect is modelled on every
\* combination of them that one text can give.
Unit == 100000

Result(ai_score, confidence) == [ai_score |-> ai_score, confidence |-> confidence]

\* _analyze_comment_quality: 0.7, 0.2, 0.3 or 0.5, then + 0.2, - 0.1 or
\* nothing; (0.0, 0.0) for a text without a code line
CommentResults ==
    {Result(s * 10000, 60000) : s \in {1, 2, 3, 4, 5, 6, 7, 9}} \cup {Result(0, 0)}

\* _analyze_naming_conventions: 0.5 + 0.2 - 0.2 + 0.15, each term or not;
\* (0.5, 0.0) for a text without an identifier
NamingAbsent == Result(50000, 0)
NamingResults ==
    {Result(s * 1000, 70000) : s \in {30, 45, 50, 65, 70, 85}} \cup {NamingAbsent}

\* _analyze_code_structure: 0.85, 0.45 or 0.3, then + 0.1 and + 0.05, each
\* or not; (0.5, 0.0) for a text of white space only
StructureAbsent == Result(50000, 0)
StructureResults ==
    {Result(s * 1000, 75000) :
        s \in {30, 35, 40, 45, 50, 55, 60, 85, 90, 95, 100}} \cup {StructureAbsent}

\* _analyze_error_handling: 0.5, 0.75 or 0.6, then + 0.1 or not
ErrorHandlingResults == {Result(s * 1000, 55000) : s \in {50, 60, 70, 75, 85}}

\* _analyze_entropy
EntropyResults == {Result(s * 1000, 60000) : s \in {80, 65, 45, 25}}

\* line 357-368: the result of the pattern lists for the two counts
PatternResult(ai_pattern_matches, human_pattern_matches) ==
    Result(IF ai_pattern_matches + human_pattern_matches > 0
           THEN (ai_pattern_matches * Unit) \div (ai_pattern_matches + human_pattern_matches)
           ELSE 50000,
           80000)

\* line 371-378, in hundredths
Weights ==
    [comments |-> 12, naming |-> 18, structure |-> 15, error_handling |-> 8,
     entropy |-> 12, patterns |-> 35]

Methods == {"comments", "naming", "structure", "error_handling", "entropy", "patterns"}

\* the sum of f over the six methods
SumOver(f) ==
    f["comments"] + f["naming"] + f["structure"] + f["error_handling"]
        + f["entropy"] + f["patterns"]

\* line 380-392: the weighted average; weight * confidence is taken in units
\* of 1/10000, so that the products fit TLC's integers
WeightedScore(detections) ==
    LET wc == [m \in Methods |-> (Weights[m] * detections[m].confidence) \div 1000]
        total_score == SumOver([m \in Methods |-> detections[m].ai_score * wc[m]])
        total_confidence == SumOver(wc)
    IN IF total_confidence > 0 THEN total_score \div total_confidence ELSE 50000

\* line 395-404: np.var of the six scores, taken in thousandths; n * n * var
\* is n * sum(x^2) - sum(x)^2
AgreementConfidence(detections) ==
    LET x == [m \in Methods |-> detections[m].ai_score \div 100]
        n == Cardinality(Methods)
        sum == SumOver(x)
        nnvar == n * SumOver([m \in Methods |-> x[m] * x[m]]) - sum * sum
    IN IF nnvar < n * n * 50000 THEN 90000
       ELSE IF nnvar < n * n * 100000 THEN 75000
       ELSE 60000

\* the override sets the score and leaves the confidence
SortingOverrideScoreOnly(r, is_sorting_algorithm) ==
    IF is_sorting_algorithm THEN Result(Max2(r.ai_score, 85000), r.confidence) ELSE r

\* line 415-418
SortingOverride(r, is_sorting_algorithm) ==
    IF is_sorting_algorithm THEN Result(Max2(r.ai_score, 85000), 92000) ELSE r

\* the caps of the two branches are 0.90
AIBoostLowCap(r, ai_pattern_matches) ==
    IF ai_pattern_matches >= 3
    THEN Result(Min2(r.ai_score + 15000, 90000), Min2(r.confidence + 15000, 90000))
    ELSE IF ai_pattern_matches >= 2
    THEN Result(Min2(r.ai_score + 10000, 90000), Min2(r.confidence + 10000, 90000))
    ELSE r

\* line 420-426
AIBoost(r, ai_pattern_matches) ==
    IF ai_pattern_matches >= 3
    THEN Result(Min2(r.ai_score + 15000, 98000), Min2(r.confidence + 15000, 98000))
    ELSE IF ai_pattern_matches >= 2
    THEN Result(Min2(r.ai_score + 10000, 95000), Min2(r.confidence + 10000, 95000))
    ELSE r

\* the human adjustment raises the score
HumanAdjustUp(r, ai_pattern_matches, human_pattern_matches) ==
    IF human_pattern_matches >= 3 /\ ai_pattern_matches = 0
    THEN Result(Min2(r.ai_score + 20000, 95000), Min2(r.confidence + 15000, 95000))
    ELSE IF human_pattern_matches >= 2 /\ ai_pattern_matches <= 1
    THEN Result(Min2(r.ai_score + 15000, 90000), Min2(r.confidence + 10000, 90000))
    ELSE r

\* line 428-434
HumanAdjust(r, ai_pattern_matches, human_pattern_matches) ==
    IF human_pattern_matches >= 3 /\ ai_pattern_matches = 0
    THEN Result(Max2(r.ai_score - 20000, 5000), Min2(r.confidence + 15000, 95000))
    ELSE IF human_pattern_matches >= 2 /\ ai_pattern_matches <= 1
    THEN Result(Max2(r.ai_score - 15000, 10000), Min2(r.confidence + 10000, 90000))
    ELSE r

\* round(x, 4): to the nearest multiple of Unit / 10000
Round4(x) == ((x + 5) \div 10) * 10

\* line 437-441: the dict returned
Returned(r) ==
    [is_ai |-> r.ai_score >= 50000,
     ai_score |-> Round4(r.ai_score),
     human_score |-> Round4(Unit - r.ai_score),
     confidence |-> Round4(r.confidence)]

\* line 328-334: the result for a text that is too short
Neutral == [is_ai |-> FALSE, ai_score |-> 50000, human_score |-> 50000, confidence |-> 0]

\* the shortest text that is analysed
MinCodeLength == 20

\* the text is too short under half that length
TooShortHalf(len) == len < MinCodeLength \div 2

\* line 327: not code or len(code) < 20
TooShort(len) == len < MinCodeLength

CodeLengths == 0..MinCodeLength

\* what one text can give: a text without an identifier has no word that
\* starts with a letter, so that no sorting signature and no try block is
\* found in it; a text of white space only has no comment, no quoted string
\* and no pattern either
OneText(detections, ai_pattern_matches, human_pattern_matches, is_sorting_algorithm) ==
    /\ detections.naming = NamingAbsent =>
          /\ ~is_sorting_algorithm
          /\ detections.error_handling.ai_score <= 60000
    /\ detections.structure = StructureAbsent =>
          /\ detections.naming = NamingAbsent
          /\ detections.comments = Result(0, 0)
          /\ detections.error_handling.ai_score = 50000
          /\ ai_pattern_matches = 0
          /\ human_pattern_matches = 0

\* detect(code) for a text of the given length and analyzer results; each
\* stage is bound to its value once, as the code assigns it once
CallDetect ==
    /\ call = NoCall
    /\ \E len \in CodeLengths :
          IF TooShort(len)
          THEN call' = [fn |-> "detect", len |-> len, analysed |-> FALSE, ret |-> Neutral]
          ELSE \E comments \in CommentResults, naming \in NamingResults,
                  structure \in StructureResults,
                  error_handling \in ErrorHandlingResults, entropy \in EntropyResults,
                  ai_pattern_matches \in 0..MaxMatches,
                  human_pattern_matches \in 0..MaxMatches,
                  is_sorting_algorithm \in BOOLEAN :
                  \E detections \in
                        {[comments |-> comments, naming |-> naming,
                          structure |-> structure, error_handling |-> error_handling,
                          entropy |-> entropy,
                          patterns |-> PatternResult(ai_pattern_matches,
                                                     human_pattern_matches)]} :
                     /\ OneText(detections, ai_pattern_matches, human_pattern_matches,
                                is_sorting_algorithm)
                     /\ \E ensemble \in {Result(WeightedScore(detections),
                                                 AgreementConfidence(detections))} :
                        \E overridden \in {SortingOverride(ensemble, is_sorting_algorithm)} :
                        \E boosted \in {AIBoost(overridden, ai_pattern_matches)} :
                        \E adjusted \in {HumanAdjust(boosted, ai_pattern_matches,
                                                     human_pattern_matches)} :
                           call' = [fn |-> "detect", len |-> len, analysed |-> TRUE,
                                    detections |-> detections,
                                    ai_pattern_matches |-> ai_pattern_matches,
                                    human_pattern_matches |-> human_pattern_matches,
                                    is_sorting_algorithm |-> is_sorting_algorithm,
                                    ensemble |-> ensemble, overridden |-> overridden,
                                    boosted |-> boosted, ret |-> Returned(adjusted)]
    /\ UNCHANGED <<store, queued, requests, job, faults>>

DetectNext == CallDetect

DetectSpec == EngineInit /\ [][DetectNext]_vars

\* ================================================================ properties
Enumerated == {submissions[n].id : n \in 1..Len(submissions)}

\* the file records the job got with its submissions
SnapshotFiles ==
    {k \in FileKeys : \E n \in 1..Len(submissions) :
        submissions[n].id = k[1] /\ k[2] <= submissions[n].files}

FileFailed(k) == outcome[k] \in {"not_read", "analysis_failed"}
PairDone(k) == pairs[k].status = "completed" /\ pairs[k].score >= 0
NothingAnalysed ==
    /\ \A k \in FileKeys : results[k] = 0 /\ outcome[k] = "none"
    /\ \A k \in PairKeys : pairs[k].status \in {"none", "pending"} /\ pairs[k].score < 0
    /\ marked = {}
    /\ \A s \in Subs : subStatus[s] # "completed"

\* C1 (as stated): a job that loaded fewer than two submissions ends with a
\* result row for each of their files and the assignment completed.
C1_Original ==
    (pc = "done" /\ raised = "" /\ Len(submissions) < 2) =>
        /\ asgStatus = "completed"
        /\ asgWrites # <<>>
        /\ \A k \in SnapshotFiles : results[k] = 1

\* C1 (amended): a job that loaded fewer than two submissions returns at
\* once: it writes no assignment status, no submission status, no result
\* row and no pair, and the assignment keeps the status it had.
C1_EarlyReturn ==
    (pc # "idle" /\ raised = "" /\ Len(submissions) < 2) =>
        /\ pc = "done"
        /\ asgWrites = <<>>
        /\ asgStatus = statusAtLoad
        /\ NothingAnalysed

C1_Witness ==
    /\ pc = "done"
    /\ raised = ""
    /\ Len(submissions) = 1
    /\ submissions[1].files > 0
    /\ asgStatus = "active"

\* C2: when get_embedding raised, every pair is still completed and the
\* assignment ends completed.
C2_ProviderFailureTolerated ==
    (pc = "done" /\ raised = "embedding") =>
        /\ asgStatus = "completed"
        /\ \A k \in LoopPairs([n \in 1..Len(submissions) |-> submissions[n].id]) :
              pairs[k].status = "completed"

\* C3 (as stated): whatever files fail, a finished job has a result row for
\* every other file of every submission, has set no submission to failed
\* and has completed the assignment.
C3_Original ==
    (pc = "done" /\ raised = "") =>
        /\ asgStatus = "completed"
        /\ \A k \in SnapshotFiles : ~FileFailed(k) => results[k] = 1
        /\ \A s \in Subs : subStatus[s] # "failed"

\* C3 (amended): the same for a job that loaded at least two submissions:
\* every file was tried, each file that did not fail has its one row, a
\* failed file has none, no submission is failed, the assignment is
\* completed.
C3_FileIsolation ==
    /\ \A s \in Subs : subStatus[s] # "failed"
    /\ (pc = "done" /\ raised = "" /\ Len(submissions) >= 2) =>
          /\ asgStatus = "completed"
          /\ \A k \in SnapshotFiles :
                /\ outcome[k] # "none"
                /\ results[k] = (IF FileFailed(k) THEN 0 ELSE 1)
          /\ \A s \in Enumerated : subStatus[s] = "completed"

C3_Witness ==
    /\ pc = "done"
    /\ raised = ""
    /\ asgStatus = "completed"
    /\ \E k1, k2 \in SnapshotFiles :
          /\ k1[1] = k2[1]
          /\ k1[2] < k2[2]
          /\ FileFailed(k1)
          /\ results[k2] = 1

\* C4: an exception of a pair update or of a submission-status write is
\* caught locally: the job does not write failed and still ends completed.
C4_PairErrorsLocal ==
    (pc = "done" /\ raised \in {"pair_update", "submission_write"}) =>
        /\ \A n \in 1..Len(asgWrites) : asgWrites[n] # "failed"
        /\ asgStatus = "completed"

C6_AllPairsCompleted ==
    (pc = "done" /\ raised = "" /\ asgWrites # <<>> /\ asgStatus = "completed") =>
        \A a, b \in Enumerated :
            a # b => PairDone(<<a, b>>) \/ PairDone(<<b, a>>)

\* C7: the assignment statuses one job writes are at most one processing
\* followed by at most one of completed and failed.
C7_OneTerminalWrite ==
    asgWrites \in
        {<<>>, <<"processing">>, <<"completed">>, <<"failed">>,
         <<"processing", "completed">>, <<"processing", "failed">>}

\* C8 (as stated): a job writes processing only over the status active.
C8_Original ==
    (asgWrites # <<>> /\ asgWrites[1] = "processing") => statusAtLoad = "active"

\* C8 (amended): the job does not read the status: once it has loaded two
\* or more submissions and its first write went through, the assignment is
\* in processing whatever its status was.
C8_ProcessingFromAnyStatus ==
    pc \in {"mark_submissions", "files", "pairs", "final_assignment"} =>
        /\ asgStatus = "processing"
        /\ asgWrites = <<"processing">>

C8_Witness ==
    /\ pc = "mark_submissions"
    /\ statusAtLoad = "draft"
    /\ asgStatus = "processing"

\* C9: when the job has ended, every submission it set to processing is
\* completed or failed.
C9_NoSubmissionLeftProcessing ==
    pc = "done" => \A s \in marked : subStatus[s] \in {"completed", "failed"}

C11_UniquePerUnorderedPair ==
    \A a, b \in Subs :
        a < b => ~(pairs[<<a, b>>].status # "none" /\ pairs[<<b, a>>].status # "none")

\* the two signals of the pair (1, 2) as step 4 computes them from the dicts
Structural12 == compute_similarity(submission_fingerprints[1], submission_fingerprints[2])
SemanticAvailable12 ==
    submission_embeddings[1] # NoEmbedding /\ submission_embeddings[2] # NoEmbedding
Semantic12 ==
    IF SemanticAvailable12
    THEN Cosine(submission_embeddings[1], submission_embeddings[2])
    ELSE 0

\* C12: every similarity_score the job has written lies in [0, 1].
C12_ScoreInUnitInterval ==
    \A k \in PairKeys :
        pairs[k].status = "completed" => pairs[k].score >= 0 /\ pairs[k].score <= Scale

C12_Witness ==
    /\ pairs[<<1, 2>>].status = "completed"
    /\ Semantic12 < 0
    /\ Structural12 > 0
    /\ Structural12 < Scale

\* C13 (as stated): the score of a compared pair is the larger of the
\* structural similarity and the equal-weight average of the two signals.
C13_Original ==
    pairs[<<1, 2>>].status = "completed" =>
        pairs[<<1, 2>>].score =
            Max2((Structural12 * 5 + Semantic12 * 5) \div 10, Structural12)

\* C13 (amended): the score of a compared pair is the larger of the
\* structural similarity and 0.4 * semantic + 0.6 * structural, the semantic
\* signal counting as 0 when an embedding is missing.
C13_WeightedMax ==
    pairs[<<1, 2>>].status = "completed" =>
        LET tenfold == Semantic12 * 4 + Structural12 * 6
            score == pairs[<<1, 2>>].score
        IN IF tenfold >= 10 * Structural12
           THEN 10 * score <= tenfold /\ tenfold < 10 * score + 10
           ELSE score = Structural12

C13_Witness ==
    /\ pairs[<<1, 2>>].status = "completed"
    /\ Structural12 > 0
    /\ Semantic12 > Structural12
    /\ Semantic12 < Scale
    /\ pairs[<<1, 2>>].score > Structural12

\* C14: the score of a compared pair is never below its structural
\* similarity; it is the structural similarity when an embedding is missing;
\* and it is at least 0.95 for identical non-empty fingerprint unions.
C14_FallbackDominance ==
    pairs[<<1, 2>>].status = "completed" =>
        /\ pairs[<<1, 2>>].score >= Structural12
        /\ ~SemanticAvailable12 => pairs[<<1, 2>>].score = Structural12
        /\ (/\ submission_fingerprints[1] # {}
            /\ submission_fingerprints[1] = submission_fingerprints[2])
              => pairs[<<1, 2>>].score * 100 >= 95 * Scale

C14_Witness ==
    /\ pairs[<<1, 2>>].status = "completed"
    /\ submission_fingerprints[1] # {}
    /\ submission_fingerprints[1] = submission_fingerprints[2]
    /\ Semantic12 < 0
    /\ pairs[<<1, 2>>].score = Scale

\* the values of a sequence at the positions from..to
Values(seq, from, to) == {seq[p] : p \in from..to}

\* C15: winnow returns the set of the minima of all windows of width w; the
\* minimum of the whole sequence when it is non-empty and shorter than w;
\* the empty set for the empty sequence; {2} for the worked example.
C15_WindowMinima ==
    call.fn = "winnow" =>
        LET h == call.hashes
            w == call.w
            n == Len(h)
            IsMinOf(x, from, to) ==
                x \in Values(h, from, to) /\ \A y \in Values(h, from, to) : x <= y
        IN /\ n = 0 => call.ret = {}
           /\ (n > 0 /\ n < w) => call.ret = {x \in Values(h, 1, n) : IsMinOf(x, 1, n)}
           /\ n >= w => call.ret = {x \in Values(h, 1, n) :
                                     \E p \in 1..(n - w + 1) : IsMinOf(x, p, p + w - 1)}
           /\ (h = TestHashes /\ w = 4) => call.ret = {2}

C15_Witness ==
    /\ call.fn = "winnow"
    /\ call.hashes = TestHashes
    /\ call.w = 4
    /\ call.ret = {2}

\* C16: get_kgrams returns the len - k + 1 windows of length k in order
\* when the text has at least k characters, the text alone when it is
\* shorter and not empty, and nothing for the empty text.
C16_Kgrams ==
    call.fn = "get_kgrams" =>
        LET t == call.text
            k == call.k
            r == call.ret
        IN /\ Len(t) >= k =>
                 /\ Len(r) = Len(t) - k + 1
                 /\ \A n \in 1..Len(r) :
                       /\ Len(r[n]) = k
                       /\ \A p \in 1..k : r[n][p] = t[n + p - 1]
           /\ (Len(t) > 0 /\ Len(t) < k) => r = <<t>>
           /\ Len(t) = 0 => r = <<>>

C16_Witness ==
    /\ call.fn = "get_kgrams"
    /\ call.k = 2
    /\ Len(call.text) = 4
    /\ Len(call.ret) = 3
    /\ call.ret[1] # call.ret[3]

\* C17: compute_similarity is in [0, 1]; it is intersection over union for
\* non-empty sets; it is 1 exactly for identical non-empty sets; it is 0
\* when a set is empty.
C17_Jaccard ==
    call.fn = "compute_similarity" =>
        LET A == call.fp1
            B == call.fp2
        IN /\ call.ret >= 0 /\ call.ret <= Scale
           /\ (A # {} /\ B # {}) =>
                 call.ret * Cardinality(A \cup B) = Cardinality(A \cap B) * Scale
           /\ call.ret = Scale <=> (A = B /\ A # {})
           /\ (A = {} \/ B = {}) => call.ret = 0

C17_Witness ==
    /\ call.fn = "compute_similarity"
    /\ call.fp1 \cap call.fp2 # {}
    /\ call.fp1 \ call.fp2 # {}
    /\ call.ret > 0
    /\ call.ret < Scale

\* C18: compute_similarity gives the same value with its arguments swapped.
C18_Symmetric ==
    call.fn = "compute_similarity" => call.ret = call.ret_swapped

C18_Witness ==
    /\ call.fn = "compute_similarity"
    /\ call.fp1 # {}
    /\ call.fp1 \subseteq call.fp2
    /\ call.fp1 # call.fp2
    /\ call.ret_swapped > 0

\* C19 (as stated): two texts with the same preprocess output, the empty
\* one included, have identical fingerprint sets of similarity 1.
C19_Original ==
    (call.fn = "get_fingerprints" /\ preprocess(call.text1) = preprocess(call.text2)) =>
        /\ call.fp1 = call.fp2
        /\ call.ret = Scale

\* C19 (amended): two texts with the same preprocess output have identical
\* fingerprint sets; their similarity is 1 when that output is not empty and
\* 0 when it is empty (both sets are then empty).
C19_CanonicalEqual ==
    (call.fn = "get_fingerprints" /\ preprocess(call.text1) = preprocess(call.text2)) =>
        /\ call.fp1 = call.fp2
        /\ preprocess(call.text1) # <<>> => call.fp1 # {} /\ call.ret = Scale
        /\ preprocess(call.text1) = <<>> => call.fp1 = {} /\ call.ret = 0

C19_Witness ==
    /\ call.fn = "get_fingerprints"
    /\ call.text1 # call.text2
    /\ preprocess(call.text1) = preprocess(call.text2)
    /\ Len(preprocess(call.text1)) = 2
    /\ call.ret = Scale

\* text1 and text2 have a common substring of length len
SharedSubstring(text1, text2, len) ==
    \E p1 \in 1..(Len(text1) - len + 1), p2 \in 1..(Len(text2) - len + 1) :
        SubSeq(text1, p1, p1 + len - 1) = SubSeq(text2, p2, p2 + len - 1)

\* C20: two canonical texts with a common substring of length w + k - 1
\* have a fingerprint in common.
C20_WinnowingGuarantee ==
    (call.fn = "pipeline" /\ SharedSubstring(call.text1, call.text2, call.w + call.k - 1)) =>
        call.fp1 \cap call.fp2 # {}

C20_Witness ==
    /\ call.fn = "pipeline"
    /\ call.k = 2
    /\ call.w = 2
    /\ SharedSubstring(call.text1, call.text2, call.w + call.k - 1)
    /\ ~SharedSubstring(call.text1, call.text2, call.w + call.k)
    /\ call.fp1 # call.fp2
    /\ call.fp1 \cap call.fp2 # {}

\* ---- the detector ----

\* a call of detect on a text long enough to be analysed
Detected == call.fn = "detect" /\ call.analysed

\* C21: detect returns the neutral result (ai_score 0.5, human_score 0.5,
\* confidence 0.0, is_ai false) for every text that is empty or shorter than
\* 20 characters, and runs no analyzer, adjustment or override for it
C21_NeutralWhenShort ==
    (call.fn = "detect" /\ call.len < 20) =>
        /\ ~call.analysed
        /\ call.ret = [is_ai |-> FALSE, ai_score |-> Unit \div 2,
                       human_score |-> Unit \div 2, confidence |-> 0]

C21_Witness ==
    call.fn = "detect" /\ call.len = 19 /\ ~call.analysed /\ call.ret.confidence = 0

\* C22: whenever the sorting signature matches, the result has is_ai true
\* and a confidence of at least 0.9, whatever the analyzer scores and the
\* pattern counts are
C22_SortingIsAI ==
    (Detected /\ call.is_sorting_algorithm) =>
        /\ call.ret.is_ai
        /\ call.ret.confidence >= 90000

C22_Witness ==
    /\ Detected /\ call.is_sorting_algorithm
    /\ call.human_pattern_matches = 2 /\ call.ai_pattern_matches = 1
    /\ call.ensemble.confidence = 60000
    /\ call.ret.confidence = 90000 /\ call.ret.is_ai

\* C23: whenever the sorting signature matches, the returned ai_score is at
\* least the floor of the override, 0.85: no later adjustment brings it
\* below the floor
C23_FloorKept ==
    (Detected /\ call.is_sorting_algorithm) => call.ret.ai_score >= 85000

\* C24 as stated: with two or more human matches and no AI match the score
\* and the confidence are both lowered, the score not under 0.02; with an AI
\* match the human adjustment is not applied
C24_Original ==
    Detected =>
        /\ (call.human_pattern_matches >= 2 /\ call.ai_pattern_matches = 0) =>
              /\ call.ret.ai_score <= call.boosted.ai_score
              /\ call.ret.confidence <= call.boosted.confidence
              /\ call.ret.ai_score >= 2000
        /\ call.ai_pattern_matches >= 1 => call.ret = Returned(call.boosted)

\* C24: with two or more human matches and no AI match the score is
\* lowered (never raised) and stays at or above 0.02, while the confidence
\* is raised up to a cap (0.95 for three or more human matches, 0.90 for
\* two) and is lowered only to that cap; with exactly one AI match and two
\* or more human matches the adjustment is still applied, and with two or
\* more AI matches it is not applied
C24_HumanAdjustment ==
    Detected =>
        /\ (call.human_pattern_matches >= 2 /\ call.ai_pattern_matches = 0) =>
              /\ call.ret.ai_score < call.boosted.ai_score
              /\ call.ret.ai_score >= 2000
              /\ call.ret.confidence >=
                    Min2(call.boosted.confidence,
                         IF call.human_pattern_matches >= 3 THEN 95000 ELSE 90000)
        /\ (call.human_pattern_matches >= 2 /\ call.ai_pattern_matches = 1) =>
              /\ call.ret.ai_score < call.boosted.ai_score
              /\ call.ret.confidence >= Min2(call.boosted.confidence, 90000)
        /\ call.ai_pattern_matches >= 2 => call.ret = Returned(call.boosted)

C24_Witness ==
    /\ Detected
    /\ call.human_pattern_matches = 3 /\ call.ai_pattern_matches = 0
    /\ ~call.is_sorting_algorithm
    /\ call.boosted.confidence = 90000 /\ call.ret.confidence = 95000
    /\ call.ret.ai_score = 5000

\* C25: with two or more AI matches the returned ai_score and confidence
\* are each not lower than before the adjustment and neither is above 0.98,
\* for every score and confidence the analyzers and the override produce
C25_AIBoost ==
    (Detected /\ call.ai_pattern_matches >= 2) =>
        /\ call.ret.ai_score >= call.overridden.ai_score
        /\ call.ret.confidence >= call.overridden.confidence
        /\ call.ret.ai_score <= 98000
        /\ call.ret.confidence <= 98000

C25_Witness ==
    /\ Detected /\ call.ai_pattern_matches = 2
    /\ call.overridden.ai_score > 93000
    /\ call.ret.ai_score = 95000 /\ call.ret.confidence = 95000

\* ---- repeated runs and frame conditions ----

\* the job's list of submission ids, in its order
JobOrder == [n \in 1..Len(submissions) |-> submissions[n].id]

\* the rows of comparison_pairs
PairRows == {k \in PairKeys : pairs[k].status # "none"}

\* the files of submission s that the job has read
FilesRead(s) == {k \in FileKeys : k[1] = s /\ outcome[k] \in {"ok", "analysis_failed"}}

C27_AppendOnly ==
    [][\A k \in FileKeys :
          results'[k] = results[k]
                          + (IF outcome[k] # "ok" /\ outcome'[k] = "ok" THEN 1 ELSE 0)]_vars

C27_Witness ==
    /\ requests = 2 /\ pc = "pairs"
    /\ \E k \in FileKeys : results[k] = 2 /\ outcome[k] = "ok"
    /\ \E k \in FileKeys : results[k] = 1 /\ FileFailed(k)

\* C28: a run inserts and deletes no row of comparison_pairs: every step of
\* the job leaves the set of rows as it is and changes a row only by
\* setting its score with status completed
C28_NoPairInsertedOrDeleted ==
    [][(pc # "idle" \/ pc' # "idle") =>
          /\ PairRows' = PairRows
          /\ \A k \in PairKeys :
                pairs'[k] # pairs[k] => pairs'[k].status = "completed"]_vars

C28_Witness ==
    /\ pc = "final_assignment"
    /\ \E k \in PairKeys : PairDone(k)
    /\ \E k \in LoopPairs(JobOrder) : pairs[k].status = "none"

\* C29: when the pairs have been compared, the fingerprint union of every
\* submission is the union of get_fingerprints over its files that were
\* read, and every pair with a submission none of whose files was read has
\* a completed row with similarity_score 0.0
C29_UnionJaccard ==
    pc = "final_assignment" =>
        \A s \in Enumerated :
            /\ submission_fingerprints[s] =
                  UNION {get_fingerprints(FileText(k[1], k[2]), DefaultK, DefaultW) :
                            k \in FilesRead(s)}
            /\ FilesRead(s) = {} =>
                  \A t \in Enumerated \ {s} :
                     \E k \in {<<s, t>>, <<t, s>>} :
                        pairs[k].status = "completed" /\ pairs[k].score = 0

\* C30: until a run sets it to processing, a submission has the status
\* pending it was created with
C30_PendingUntilRun ==
    pc = "idle" => \A s \in subs : subStatus[s] = "pending"

====
